---- MODULE Spec2Model ----
(***************************************************************************)
(* Verification model of the data-sync-tool scheduling core:               *)
(*   - SyncTaskQueue and TaskManager (infrastructure/sync/task_manager.rs) *)
(*   - Supervisor (infrastructure/sync_engine/worker/supervisor.rs)        *)
(* The rate limiter implementation and the message bus are collaborators   *)
(* whose code is not part of the sources at hand; they are modelled from   *)
(* the written specification (sections 3, 4.1 and 5).                      *)
(***************************************************************************)
EXTENDS Integers, Sequences, FiniteSets, TLC

(***************************************************************************)
(* Bounds of the model.                                                    *)
(***************************************************************************)
MaxTasks == 2       \* tasks a queue is created with (per dataset)
MaxRetry == 1       \* largest max_retry given to add_queue
MaxOps == 3         \* SpecQueue: number of push/drain calls on the queue
MaxWorkers == 3     \* worker ids (initial pool and spawned on demand)
MaxPool == 2        \* largest n_workers given to Supervisor::new
MaxCmds == 3        \* commands sent to the Supervisor
TaskCap == 1        \* capacity of the task channel
ErrCap == 1         \* capacity of the error channel
FailCap == 1        \* capacity of the failed-task channel

PlanIds == {"p1", "p2"}
WorkerIds == 1..MaxWorkers
DatasetIds == {"A", "B"}
TaskIds == DatasetIds \X (1..MaxTasks)
dataset_id(t) == t[1]

\* Option<T>: None is the empty sequence, Some(x) a one-element sequence.
None == <<>>
Some(x) == <<x>>
IsSome(o) == Len(o) = 1
Unwrap(o) == o[1]

(***************************************************************************)
(* RateLimiter (trait: domain/synchronization/rate_limiter.rs; behaviour   *)
(* of the implementation from the specification, section 4.1).            *)
(*   minute   : tokens remaining in the current minute                     *)
(*   day      : tokens remaining in the current day                        *)
(*   cooldown : "off", "announced" (MinuteExceeded(true) has been          *)
(*              answered, timer not running), "running" (timer started)    *)
(***************************************************************************)
LimiterChoices ==
    { [max_minute |-> m, minute |-> m, daily_limit |-> dl, day |-> dl, cooldown |-> "off"] :
        m \in {1}, dl \in {1, 3} }

StatusOk(n) == [kind |-> "Ok", should_start_cooldown |-> FALSE, remaining |-> n]
StatusMinute(flag) == [kind |-> "RequestPerMinuteExceeded", should_start_cooldown |-> flag, remaining |-> 0]
StatusDay == [kind |-> "RequestPerDayExceeded", should_start_cooldown |-> FALSE, remaining |-> 0]

\* can_proceed(&mut self): the answer and the limiter afterwards.
can_proceed(l) ==
    IF l.day = 0
    THEN [status |-> StatusDay, limiter |-> l]
    ELSE IF l.cooldown # "off"
    THEN [status |-> StatusMinute(FALSE), limiter |-> l]
    ELSE IF l.minute = 0
    THEN [status |-> StatusMinute(TRUE), limiter |-> [l EXCEPT !.cooldown = "announced"]]
    ELSE [status |-> StatusOk(l.minute - 1),
          limiter |-> [l EXCEPT !.minute = l.minute - 1, !.day = l.day - 1]]

\* start_countdown(&mut self, reset): Ok(timer handle) or Err(TimerError).
start_countdown(l) ==
    { [ok |-> TRUE, limiter |-> [l EXCEPT !.cooldown = "running"]],
      [ok |-> FALSE, limiter |-> l] }

\* The cooldown timer fires: minute tokens are refilled.
cooldown_expired(l) == [l EXCEPT !.minute = l.max_minute, !.cooldown = "off"]

\* The day boundary passes: the day budget is reset.
day_rollover(l) == [l EXCEPT !.day = l.daily_limit]

(***************************************************************************)
(* SyncTaskQueue                                                           *)
(***************************************************************************)
\* SyncTaskQueueValue, plus the Err(TimerError) of pop_front's Result.
ValTask(o) == [kind |-> "Task", task |-> o, timer |-> FALSE]
ValRateLimited(handle) == [kind |-> "RateLimited", task |-> None, timer |-> handle]
ValDailyLimitExceeded == [kind |-> "DailyLimitExceeded", task |-> None, timer |-> FALSE]
ErrTimer == [kind |-> "TimerError", task |-> None, timer |-> FALSE]
NoValue == [kind |-> "NoValue", task |-> None, timer |-> FALSE]

new(tasks, rate_limiter) == [tasks |-> tasks, rate_limiter |-> rate_limiter]

\* VecDeque::pop_front on the task sequence: the popped option and the rest.
deque_pop(q) ==
    IF q.tasks = <<>>
    THEN [value |-> ValTask(None), queue |-> q]
    ELSE [value |-> ValTask(Some(Head(q.tasks))), queue |-> [q EXCEPT !.tasks = Tail(q.tasks)]]

\* A pop that consults the limiter but pops whatever it answers.
pop_front_unguarded(q) ==
    IF IsSome(q.rate_limiter)
    THEN { deque_pop([q EXCEPT !.rate_limiter =
                          Some(can_proceed(Unwrap(q.rate_limiter)).limiter)]) }
    ELSE { deque_pop(q) }

\* A pop that starts the countdown on every RequestPerMinuteExceeded answer.
pop_front_always_starts(q) ==
    IF IsSome(q.rate_limiter)
    THEN LET r == can_proceed(Unwrap(q.rate_limiter))
             q1 == [q EXCEPT !.rate_limiter = Some(r.limiter)]
         IN  CASE r.status.kind = "Ok" -> { deque_pop(q1) }
               [] r.status.kind = "RequestPerDayExceeded" ->
                     { [value |-> ValDailyLimitExceeded, queue |-> q1] }
               [] r.status.kind = "RequestPerMinuteExceeded" ->
                     { [value |-> IF c.ok THEN ValRateLimited(TRUE) ELSE ErrTimer,
                        queue |-> [q EXCEPT !.rate_limiter = Some(c.limiter)]] :
                         c \in start_countdown(r.limiter) }
    ELSE { deque_pop(q) }

\* A pop that loses the task at the head when the countdown cannot be started.
pop_front_losing_on_timer_error(q) ==
    IF IsSome(q.rate_limiter)
    THEN LET r == can_proceed(Unwrap(q.rate_limiter))
             q1 == [q EXCEPT !.rate_limiter = Some(r.limiter)]
         IN  CASE r.status.kind = "Ok" -> { deque_pop(q1) }
               [] r.status.kind = "RequestPerDayExceeded" ->
                     { [value |-> ValDailyLimitExceeded, queue |-> q1] }
               [] r.status.kind = "RequestPerMinuteExceeded" ->
                     IF r.status.should_start_cooldown
                     THEN { IF c.ok
                            THEN [value |-> ValRateLimited(TRUE),
                                  queue |-> [q EXCEPT !.rate_limiter = Some(c.limiter)]]
                            ELSE [value |-> ErrTimer,
                                  queue |-> [q EXCEPT !.rate_limiter = Some(c.limiter),
                                                      !.tasks = IF q.tasks = <<>> THEN <<>>
                                                                ELSE Tail(q.tasks)]] :
                              c \in start_countdown(r.limiter) }
                     ELSE { [value |-> ValRateLimited(FALSE), queue |-> q1] }
    ELSE { deque_pop(q) }

\* pop_front(&mut self): the set of possible (value, queue afterwards).
pop_front(q) ==
    IF IsSome(q.rate_limiter)
    THEN LET r == can_proceed(Unwrap(q.rate_limiter))
             q1 == [q EXCEPT !.rate_limiter = Some(r.limiter)]
         IN  CASE r.status.kind = "Ok" -> { deque_pop(q1) }
               [] r.status.kind = "RequestPerDayExceeded" ->
                     { [value |-> ValDailyLimitExceeded, queue |-> q1] }
               [] r.status.kind = "RequestPerMinuteExceeded" ->
                     IF r.status.should_start_cooldown
                     THEN { [value |-> IF c.ok THEN ValRateLimited(TRUE) ELSE ErrTimer,
                             queue |-> [q EXCEPT !.rate_limiter = Some(c.limiter)]] :
                              c \in start_countdown(r.limiter) }
                     ELSE { [value |-> ValRateLimited(FALSE), queue |-> q1] }
    ELSE { deque_pop(q) }

\* A drain that hands the removed tasks back last-first.
drain_reversed(q, lo, hi) ==
    [removed |-> [k \in 1..(hi - lo + 1) |-> q.tasks[hi - k + 1]],
     queue |-> [q EXCEPT !.tasks = SubSeq(q.tasks, 1, lo - 1) \o SubSeq(q.tasks, hi + 1, Len(q.tasks))]]

\* drain(range) over the 1-based positions lo..hi: removed tasks and the rest.
drain(q, lo, hi) ==
    [removed |-> SubSeq(q.tasks, lo, hi),
     queue |-> [q EXCEPT !.tasks = SubSeq(q.tasks, 1, lo - 1) \o SubSeq(q.tasks, hi + 1, Len(q.tasks))]]

push_back_at_front(q, task) == [q EXCEPT !.tasks = <<task>> \o q.tasks]

push_back(q, task) == [q EXCEPT !.tasks = Append(q.tasks, task)]

push_front(q, task) == [q EXCEPT !.tasks = <<task>> \o q.tasks]

front(q) == IF q.tasks = <<>> THEN None ELSE Some(Head(q.tasks))

is_empty(q) == q.tasks = <<>>

(***************************************************************************)
(* State.                                                                  *)
(***************************************************************************)
VARIABLES
    \* a SyncTaskQueue used directly through its methods (SpecQueue)
    sq,             \* the queue
    sq_ret,         \* what the latest call returned, when it was pop_front
    sq_pushed,      \* history: tasks given to push_back, in call order
    sq_popped,      \* history: tasks returned as Task(Some(t)), in order
    sq_plain,       \* history: only push_back / pop_front / front were called
    sq_ops,         \* history: number of push / drain calls
    sq_drained      \* what the latest call returned, when it was drain, and its range

sqvars == <<sq, sq_ret, sq_pushed, sq_popped, sq_plain, sq_ops, sq_drained>>

VARIABLES
    \* TaskManager (SpecTM)
    queues,         \* HashMap<DatasetId, (SyncTaskQueue, retries_left)>
    order,          \* iteration order of the queues map
    m_pc,           \* position of start(): init, check, poll, send_task, send_err,
                    \*   sleep, stop, join, returned, failed
    m_idx,          \* position of the for loop in the iteration order
    m_val,          \* task_value: what pop_front returned in this iteration
    any_task_found,
    map_lock,       \* holder of the queues-map mutex: free, main, drain
    fail_lock,      \* holder of the failed-task channel mutex: free, main, drain
    d_pc,           \* position of handle_failures: none, lock, recv, proc, exit
    d_msg,          \* the (dataset_id, failed_task) handle_failures received
    task_ch,        \* task channel contents
    err_ch,         \* error channel contents
    fail_ch,        \* failed-task channel contents
    closed,         \* the three channels have been closed
    w_task,         \* the task the worker is executing, if any
    \* history
    max_retry,      \* max_retry given to add_queue, per dataset
    requeued,       \* failed tasks re-enqueued, per dataset
    dormant,        \* datasets whose queue answered DailyLimitExceeded today
    last_emit,      \* dataset of the last task sent on the task channel
    seen_empty,     \* queues polled and found empty since that send
    emitted,        \* tasks sent on the task channel, in order, per dataset
    pushed,         \* tasks each queue was created with, per dataset
    batch,          \* tasks a limited queue sent since its last cooldown expiry
    result_ch       \* TaskFailed results put on the result channel

tmvars == <<queues, order, m_pc, m_idx, m_val, any_task_found, map_lock, fail_lock,
            d_pc, d_msg, task_ch, err_ch, fail_ch, closed, w_task,
            max_retry, requeued, dormant, last_emit, seen_empty, emitted, pushed, batch,
            result_ch>>

VARIABLES
    \* Supervisor (SpecSup)
    s_state,            \* Running, WaitingWorkers (the wait loop of Shutdown), Stopped,
                        \*   Panicked
    plans_to_sync,      \* HashSet<PlanId>
    worker_assignment,  \* HashMap<WorkerId, Option<PlanId>>
    worker_cmd_tx,      \* keys of HashMap<WorkerId, Sender<WorkerCommand>>
    w_inbox,            \* per worker: the commands sent to it and not yet handled
    w_alive,            \* workers whose run() has not ended
    worker_resp,        \* worker-response channel contents
    resp_out,           \* SupervisorResponses emitted on resp_tx, in order
    s_cmds,             \* number of commands received so far
    s_log               \* history: the commands received on cmd_rx, in order

supvars == <<s_state, plans_to_sync, worker_assignment, worker_cmd_tx, w_inbox, w_alive,
             worker_resp, resp_out, s_cmds, s_log>>

vars == <<sqvars, tmvars, supvars>>

SqInit ==
    /\ sq \in { new(<<>>, rl) : rl \in {None} \cup { Some(l) : l \in LimiterChoices } }
    /\ sq_ret = NoValue
    /\ sq_pushed = <<>>
    /\ sq_popped = <<>>
    /\ sq_plain = TRUE
    /\ sq_ops = 0
    /\ sq_drained = None

SqPushBack(t) ==
    /\ sq_ops < MaxOps
    /\ sq' = push_back(sq, t)
    /\ sq_pushed' = Append(sq_pushed, t)
    /\ sq_ops' = sq_ops + 1
    /\ sq_ret' = NoValue
    /\ sq_drained' = None
    /\ UNCHANGED <<sq_popped, sq_plain>>

SqPushFront(t) ==
    /\ sq_ops < MaxOps
    /\ sq' = push_front(sq, t)
    /\ sq_plain' = FALSE
    /\ sq_ops' = sq_ops + 1
    /\ sq_ret' = NoValue
    /\ sq_drained' = None
    /\ UNCHANGED <<sq_pushed, sq_popped>>

SqPopFront ==
    \E o \in pop_front(sq) :
        /\ sq' = o.queue
        /\ sq_ret' = o.value
        /\ sq_popped' = IF IsSome(o.value.task) THEN Append(sq_popped, Unwrap(o.value.task))
                        ELSE sq_popped
        /\ sq_drained' = None
        /\ UNCHANGED <<sq_pushed, sq_plain, sq_ops>>
    
SqDrain(lo, hi) ==
    \* the call budget, and one more call for a queue that MaxOps pushes filled
    /\ sq_ops < MaxOps \/ Len(sq.tasks) = MaxOps
    /\ lo <= hi /\ hi <= Len(sq.tasks)
    /\ sq' = drain(sq, lo, hi).queue
    /\ sq_drained' = Some([lo |-> lo, hi |-> hi, values |-> drain(sq, lo, hi).removed])
    /\ sq_plain' = FALSE
    /\ sq_ops' = sq_ops + 1
    /\ sq_ret' = NoValue
    /\ UNCHANGED <<sq_pushed, sq_popped>>

SqCooldownExpired ==
    /\ IsSome(sq.rate_limiter)
    /\ Unwrap(sq.rate_limiter).cooldown = "running"
    /\ sq' = [sq EXCEPT !.rate_limiter = Some(cooldown_expired(Unwrap(sq.rate_limiter)))]
    /\ sq_ret' = NoValue
    /\ sq_drained' = None
    /\ UNCHANGED <<sq_pushed, sq_popped, sq_plain, sq_ops>>

SqDayRollover ==
    /\ IsSome(sq.rate_limiter)
    /\ Unwrap(sq.rate_limiter).day < Unwrap(sq.rate_limiter).daily_limit
    /\ sq' = [sq EXCEPT !.rate_limiter = Some(day_rollover(Unwrap(sq.rate_limiter)))]
    /\ sq_ret' = NoValue
    /\ sq_drained' = None
    /\ UNCHANGED <<sq_pushed, sq_popped, sq_plain, sq_ops>>

SqNext ==
    \/ (\E t \in TaskIds : SqPushBack(t)) /\ UNCHANGED <<tmvars, supvars>>
    \/ (\E t \in TaskIds : SqPushFront(t)) /\ UNCHANGED <<tmvars, supvars>>
    \/ SqPopFront /\ UNCHANGED <<tmvars, supvars>>
    \/ (\E lo \in 1..MaxOps, hi \in 1..MaxOps : SqDrain(lo, hi)) /\ UNCHANGED <<tmvars, supvars>>
    \/ SqCooldownExpired /\ UNCHANGED <<tmvars, supvars>>
    \/ SqDayRollover /\ UNCHANGED <<tmvars, supvars>>

(***************************************************************************)
(* TaskManager                                                             *)
(***************************************************************************)
Range(f) == { f[x] : x \in DOMAIN f }

\* The orders in which a HashMap over the keys S may be iterated.
iteration_orders(S) ==
    { o \in [1..Cardinality(S) -> S] : \A i, j \in 1..Cardinality(S) : o[i] = o[j] => i = j }

next_iteration_order_unstable(o) == iteration_orders(Range(o))

\* Iterating the same, unmodified map again yields the same order.
next_iteration_order(o) == { o }

initial_tasks(d, n) == [i \in 1..n |-> <<d, i>>]

TmInit ==
    /\ queues = <<>>
    /\ order = <<>>
    /\ m_pc = "init"
    /\ m_idx = 0
    /\ m_val = NoValue
    /\ any_task_found = FALSE
    /\ map_lock = "free"
    /\ fail_lock = "free"
    /\ d_pc = "none"
    /\ d_msg = None
    /\ task_ch = <<>>
    /\ err_ch = <<>>
    /\ fail_ch = <<>>
    /\ closed = FALSE
    /\ w_task = None
    /\ max_retry = <<>>
    /\ requeued = <<>>
    /\ dormant = {}
    /\ last_emit = None
    /\ seen_empty = {}
    /\ emitted = [d \in DatasetIds |-> <<>>]
    /\ pushed = <<>>
    /\ batch = [d \in DatasetIds |-> 0]
    /\ result_ch = {}

\* add_queue(dataset_id, task_queue, max_retry), before start() is running.
add_queue(d, task_queue, retry) ==
    /\ m_pc = "init"
    /\ queues' = (d :> [queue |-> task_queue, retries_left |-> retry]) @@ queues
    /\ max_retry' = (d :> retry) @@ max_retry
    /\ pushed' = (d :> task_queue.tasks) @@ pushed
    /\ requeued' = (d :> 0) @@ requeued
    /\ UNCHANGED <<order, m_pc, m_idx, m_val, any_task_found, map_lock, fail_lock, d_pc,
                   d_msg, task_ch, err_ch, fail_ch, closed, w_task, result_ch, dormant, last_emit, emitted, batch,
                   seen_empty>>

\* all_queues_are_empty()
all_queues_are_empty == \A d \in DOMAIN queues : is_empty(queues[d].queue)

\* start(): spawn handle_failures and enter the loop.
TmStart ==
    /\ m_pc = "init"
    /\ m_pc' = "check"
    /\ d_pc' = "lock"
    /\ order' \in iteration_orders(DOMAIN queues)
    /\ UNCHANGED <<queues, m_idx, m_val, any_task_found, map_lock, fail_lock, d_msg,
                   task_ch, err_ch, fail_ch, closed, w_task, result_ch, max_retry, pushed, requeued, dormant,
                   last_emit, emitted, batch, seen_empty>>

\* Top of the loop: the emptiness check, then either stop() or the start of a pass
\* over the queues, which takes the queues-map lock for the whole pass.
TmCheck ==
    /\ m_pc = "check"
    /\ map_lock = "free"
    /\ IF all_queues_are_empty
       THEN /\ m_pc' = "stop"
            /\ UNCHANGED <<order, m_idx, map_lock, any_task_found>>
       ELSE /\ m_pc' = "poll"
            /\ order' \in next_iteration_order(order)
            /\ m_idx' = 1
            /\ map_lock' = "main"
            /\ any_task_found' = FALSE
    /\ UNCHANGED <<queues, m_val, fail_lock, d_pc, d_msg, task_ch, err_ch, fail_ch, closed,
                   w_task, result_ch, max_retry, pushed, requeued, dormant, last_emit, emitted, batch, seen_empty>>

\* End of one iteration of the for loop: next queue, or end of the pass (the map
\* lock is released; sleep when no task was found).
after_iteration_pc(found) ==
    IF m_idx < Len(order) THEN "poll" ELSE IF found THEN "check" ELSE "sleep"
after_iteration_idx == IF m_idx < Len(order) THEN m_idx + 1 ELSE 0
after_iteration_lock == IF m_idx < Len(order) THEN "main" ELSE "free"

\* One iteration up to the match: lock the queue and pop_front().await?
TmPoll ==
    /\ m_pc = "poll"
    /\ LET d == order[m_idx] IN
       \E o \in pop_front(queues[d].queue) :
          /\ queues' = [queues EXCEPT ![d].queue = o.queue]
          /\ m_val' = o.value
          /\ dormant' = IF o.value.kind = "DailyLimitExceeded" THEN dormant \cup {d} ELSE dormant
          /\ seen_empty' = IF o.value.kind = "Task" /\ ~IsSome(o.value.task)
                           THEN seen_empty \cup {d} ELSE seen_empty
          /\ CASE o.value.kind = "TimerError" ->
                    /\ m_pc' = "failed"
                    /\ map_lock' = "free"
                    /\ m_idx' = 0
               [] o.value.kind = "Task" /\ IsSome(o.value.task) ->
                    /\ m_pc' = "send_task"
                    /\ UNCHANGED <<map_lock, m_idx>>
               [] o.value.kind = "Task" /\ ~IsSome(o.value.task) ->
                    /\ m_pc' = after_iteration_pc(any_task_found)
                    /\ m_idx' = after_iteration_idx
                    /\ map_lock' = after_iteration_lock
               [] OTHER ->
                    /\ m_pc' = "send_err"
                    /\ UNCHANGED <<map_lock, m_idx>>
    /\ UNCHANGED <<order, any_task_found, fail_lock, d_pc, d_msg, task_ch, err_ch, fail_ch,
                   closed, w_task, result_ch, max_retry, pushed, requeued, last_emit, emitted, batch>>

\* task_channel.send(t).await on the bounded task channel.
TmSendTask ==
    /\ m_pc = "send_task"
    /\ Len(task_ch) < TaskCap
    /\ task_ch' = Append(task_ch, Unwrap(m_val.task))
    /\ any_task_found' = TRUE
    /\ last_emit' = Some(order[m_idx])
    /\ emitted' = [emitted EXCEPT ![order[m_idx]] = Append(@, Unwrap(m_val.task))]
    /\ batch' = IF IsSome(queues[order[m_idx]].queue.rate_limiter)
                 THEN [batch EXCEPT ![order[m_idx]] = @ + 1] ELSE batch
    /\ seen_empty' = {}
    /\ m_val' = NoValue
    /\ m_pc' = after_iteration_pc(TRUE)
    /\ m_idx' = after_iteration_idx
    /\ map_lock' = after_iteration_lock
    /\ UNCHANGED <<queues, order, fail_lock, d_pc, d_msg, err_ch, fail_ch, closed, w_task, result_ch,
                   max_retry, pushed, requeued, dormant>>

\* error_message_channel.send(..).await on the bounded error channel.
TmSendErr ==
    /\ m_pc = "send_err"
    /\ Len(err_ch) < ErrCap
    /\ err_ch' = Append(err_ch, [kind |-> m_val.kind, timer |-> m_val.timer])
    /\ m_val' = NoValue
    /\ m_pc' = after_iteration_pc(any_task_found)
    /\ m_idx' = after_iteration_idx
    /\ map_lock' = after_iteration_lock
    /\ UNCHANGED <<queues, order, any_task_found, fail_lock, d_pc, d_msg, task_ch, fail_ch,
                   closed, w_task, result_ch, max_retry, pushed, requeued, dormant, last_emit, emitted, batch, seen_empty>>

\* tokio::time::sleep(100 ms) after a pass that found no task.
TmSleep ==
    /\ m_pc = "sleep"
    /\ m_pc' = "check"
    /\ UNCHANGED <<queues, order, m_idx, m_val, any_task_found, map_lock, fail_lock, d_pc,
                   d_msg, task_ch, err_ch, fail_ch, closed, w_task, result_ch, max_retry, pushed, requeued,
                   dormant, last_emit, emitted, batch, seen_empty>>

\* A stop() after which the loop goes on.
stop_and_continue ==
    /\ m_pc = "stop"
    /\ fail_lock = "free"
    /\ closed' = TRUE
    /\ m_pc' = "sleep"
    /\ UNCHANGED <<queues, order, m_idx, m_val, any_task_found, map_lock, fail_lock, d_pc,
                   d_msg, task_ch, err_ch, fail_ch, w_task, result_ch, max_retry, pushed,
                   requeued, dormant, last_emit, emitted, batch, seen_empty>>

\* stop(): lock the three channels (the failed-task channel's mutex may be held by
\* handle_failures), close them, release.
stop ==
    /\ m_pc = "stop"
    /\ fail_lock = "free"
    /\ closed' = TRUE
    /\ m_pc' = "join"
    /\ UNCHANGED <<queues, order, m_idx, m_val, any_task_found, map_lock, fail_lock, d_pc,
                   d_msg, task_ch, err_ch, fail_ch, w_task, result_ch, max_retry, pushed, requeued, dormant,
                   last_emit, emitted, batch, seen_empty>>

\* handle_failures.await, then Ok(()).
TmJoin ==
    /\ m_pc = "join"
    /\ d_pc = "exit"
    /\ m_pc' = "returned"
    /\ UNCHANGED <<queues, order, m_idx, m_val, any_task_found, map_lock, fail_lock, d_pc,
                   d_msg, task_ch, err_ch, fail_ch, closed, w_task, result_ch, max_retry, pushed, requeued,
                   dormant, last_emit, emitted, batch, seen_empty>>

MainNext == TmCheck \/ TmPoll \/ TmSendTask \/ TmSendErr \/ TmSleep \/ stop \/ TmJoin

(***************************************************************************)
(* handle_failures: the failure-drain task spawned by start().             *)
(***************************************************************************)
\* failed_task_channel.lock().await: the guard lives until the end of the loop body.
HfLock ==
    /\ d_pc = "lock"
    /\ fail_lock = "free"
    /\ fail_lock' = "drain"
    /\ d_pc' = "recv"
    /\ UNCHANGED <<queues, order, m_pc, m_idx, m_val, any_task_found, map_lock, d_msg,
                   task_ch, err_ch, fail_ch, closed, w_task, result_ch, max_retry, pushed, requeued, dormant,
                   last_emit, emitted, batch, seen_empty>>

\* .receive().await: the next message, or None once the channel is closed and empty
\* (the while-let loop ends, the guard is dropped).
HfReceive ==
    /\ d_pc = "recv"
    /\ IF fail_ch # <<>>
       THEN /\ d_msg' = Some(Head(fail_ch))
            /\ fail_ch' = Tail(fail_ch)
            /\ d_pc' = "proc"
            /\ UNCHANGED fail_lock
       ELSE /\ closed
            /\ d_pc' = "exit"
            /\ fail_lock' = "free"
            /\ UNCHANGED <<d_msg, fail_ch>>
    /\ UNCHANGED <<queues, order, m_pc, m_idx, m_val, any_task_found, map_lock, task_ch,
                   err_ch, closed, w_task, result_ch, max_retry, pushed, requeued, dormant, last_emit, emitted, batch,
                   seen_empty>>

retry_without_decrement(entry, failed_task) ==
    IF entry.retries_left > 0
    THEN [queue |-> push_back(entry.queue, failed_task), retries_left |-> entry.retries_left]
    ELSE entry

\* The retry decision on one entry of the map: (queue, retries_left) afterwards.
retry(entry, failed_task) ==
    IF entry.retries_left > 0
    THEN [queue |-> push_back(entry.queue, failed_task), retries_left |-> entry.retries_left - 1]
    ELSE entry

\* A loop body that registers a queue for a dataset it does not know.
HfProcessRegistering ==
    /\ d_pc = "proc"
    /\ map_lock = "free"
    /\ LET d == Unwrap(d_msg)[1]
           failed_task == Unwrap(d_msg)[2]
       IN  IF d \in DOMAIN queues
           THEN /\ queues' = [queues EXCEPT ![d] = retry(queues[d], failed_task)]
                /\ requeued' = IF queues'[d].retries_left # queues[d].retries_left
                               \/ queues'[d].queue # queues[d].queue
                               THEN [requeued EXCEPT ![d] = requeued[d] + 1] ELSE requeued
           ELSE /\ queues' = (d :> [queue |-> new(<<failed_task>>, None), retries_left |-> 0])
                                @@ queues
                /\ requeued' = (d :> 0) @@ requeued
    /\ d_msg' = None
    /\ fail_lock' = "free"
    /\ d_pc' = "lock"
    /\ UNCHANGED <<order, m_pc, m_idx, m_val, any_task_found, map_lock, task_ch, err_ch,
                   fail_ch, closed, w_task, result_ch, max_retry, pushed, dormant, last_emit,
                   emitted, batch, seen_empty>>

\* Loop body: under the queues-map lock, re-enqueue the failed task if the dataset
\* has retries left; then the guards are dropped.
HfProcess ==
    /\ d_pc = "proc"
    /\ map_lock = "free"
    /\ LET d == Unwrap(d_msg)[1]
           failed_task == Unwrap(d_msg)[2]
       IN  IF d \in DOMAIN queues
           THEN /\ queues' = [queues EXCEPT ![d] = retry(queues[d], failed_task)]
                /\ requeued' = IF queues'[d].retries_left # queues[d].retries_left
                               \/ queues'[d].queue # queues[d].queue
                               THEN [requeued EXCEPT ![d] = requeued[d] + 1] ELSE requeued
           ELSE UNCHANGED <<queues, requeued>>
    /\ d_msg' = None
    /\ fail_lock' = "free"
    /\ d_pc' = "lock"
    /\ UNCHANGED <<order, m_pc, m_idx, m_val, any_task_found, map_lock, task_ch, err_ch,
                   fail_ch, closed, w_task, result_ch, max_retry, pushed, dormant, last_emit, emitted, batch, seen_empty>>

DrainNext == HfLock \/ HfReceive \/ HfProcess

(***************************************************************************)
(* Environment of the TaskManager: one worker consuming the task channel   *)
(* and reporting failures, the consumer of the error channel, and time.    *)
(***************************************************************************)
\* WorkerResult::TaskFailed for task t
TaskFailed(t) == [kind |-> "TaskFailed", task |-> t]

WorkerTake ==
    /\ w_task = None
    /\ task_ch # <<>>
    /\ w_task' = Some(Head(task_ch))
    /\ task_ch' = Tail(task_ch)
    /\ UNCHANGED <<queues, order, m_pc, m_idx, m_val, any_task_found, map_lock, fail_lock,
                   d_pc, d_msg, err_ch, fail_ch, closed, max_retry, pushed, requeued, dormant,
                   last_emit, emitted, batch, seen_empty, result_ch>>

\* The task succeeded (its TaskCompleted result is not tracked).
WorkerComplete ==
    /\ w_task # None
    /\ w_task' = None
    /\ UNCHANGED result_ch
    /\ UNCHANGED <<queues, order, m_pc, m_idx, m_val, any_task_found, map_lock, fail_lock,
                   d_pc, d_msg, task_ch, err_ch, fail_ch, closed, max_retry, pushed, requeued,
                   dormant, last_emit, emitted, batch, seen_empty>>

\* The task failed: send (dataset_id, task) on the bounded failed-task channel; the
\* send fails at once when the channel is closed.
WorkerFail ==
    /\ w_task # None
    /\ closed \/ Len(fail_ch) < FailCap
    /\ fail_ch' = IF closed THEN fail_ch
                  ELSE Append(fail_ch, <<dataset_id(Unwrap(w_task)), Unwrap(w_task)>>)
    /\ w_task' = None
    /\ UNCHANGED <<queues, order, m_pc, m_idx, m_val, any_task_found, map_lock, fail_lock,
                   d_pc, d_msg, task_ch, err_ch, closed, max_retry, pushed, requeued, dormant,
                   last_emit, emitted, batch, seen_empty, result_ch>>

WorkerNext == WorkerTake \/ WorkerComplete \/ WorkerFail

ErrConsume ==
    /\ err_ch # <<>>
    /\ err_ch' = Tail(err_ch)
    /\ UNCHANGED <<queues, order, m_pc, m_idx, m_val, any_task_found, map_lock, fail_lock,
                   d_pc, d_msg, task_ch, fail_ch, closed, w_task, result_ch, max_retry, pushed, requeued,
                   dormant, last_emit, emitted, batch, seen_empty>>

TmCooldownExpired(d) ==
    /\ d \in DOMAIN queues
    /\ IsSome(queues[d].queue.rate_limiter)
    /\ Unwrap(queues[d].queue.rate_limiter).cooldown = "running"
    /\ queues' = [queues EXCEPT ![d].queue.rate_limiter =
                     Some(cooldown_expired(Unwrap(queues[d].queue.rate_limiter)))]
    /\ batch' = [batch EXCEPT ![d] = 0]
    /\ UNCHANGED <<order, m_pc, m_idx, m_val, any_task_found, map_lock, fail_lock, d_pc,
                   d_msg, task_ch, err_ch, fail_ch, closed, w_task, result_ch, max_retry, pushed,
                   requeued, dormant, last_emit, emitted, seen_empty>>

\* The queues registered before start(): empty or holding MaxTasks tasks, with or
\* without a limiter, with retry budget MaxRetry (smaller queues and budgets are
\* the states later reached from these).
TmSetup ==
    \E d \in DatasetIds, n \in {0, MaxTasks},
       rl \in {None} \cup { Some(l) : l \in LimiterChoices } :
        add_queue(d, new(initial_tasks(d, n), rl), MaxRetry)

\* The number of tasks that fills both bounded channels and leaves one task each
\* with the main loop, the worker and handle_failures.
LoadTasks == TaskCap + FailCap + 3

\* One queue, for dataset "A", registered before start() with LoadTasks tasks;
\* dataset "B" has no queue.
TmSetupLoad ==
    /\ queues = <<>>
    /\ \E rl \in {None} \cup { Some(l) : l \in LimiterChoices } :
          add_queue("A", new(initial_tasks("A", LoadTasks), rl), MaxRetry)

\* A worker reports on the failed-task channel a failed task of a dataset that has
\* no queue in the TaskManager.
WorkerFailUnknown ==
    /\ m_pc # "init"
    /\ ~closed
    /\ Len(fail_ch) < FailCap
    /\ \E d \in DatasetIds \ DOMAIN queues : fail_ch' = Append(fail_ch, <<d, <<d, 1>>>>)
    /\ UNCHANGED <<queues, order, m_pc, m_idx, m_val, any_task_found, map_lock, fail_lock,
                   d_pc, d_msg, task_ch, err_ch, closed, w_task, max_retry, pushed, requeued,
                   dormant, last_emit, emitted, batch, seen_empty, result_ch>>

TmLoadNext ==
    \/ (TmSetupLoad /\ UNCHANGED <<sqvars, supvars>>)
    \/ (TmStart /\ UNCHANGED <<sqvars, supvars>>)
    \/ (MainNext /\ UNCHANGED <<sqvars, supvars>>)
    \/ (DrainNext /\ UNCHANGED <<sqvars, supvars>>)
    \/ (WorkerNext /\ UNCHANGED <<sqvars, supvars>>)
    \/ (WorkerFailUnknown /\ UNCHANGED <<sqvars, supvars>>)
    \/ (ErrConsume /\ UNCHANGED <<sqvars, supvars>>)
    \/ (\E d \in DatasetIds : TmCooldownExpired(d) /\ UNCHANGED <<sqvars, supvars>>)

TmNext ==
    \/ (TmSetup /\ UNCHANGED <<sqvars, supvars>>)
    \/ (TmStart /\ UNCHANGED <<sqvars, supvars>>)
    \/ (MainNext /\ UNCHANGED <<sqvars, supvars>>)
    \/ (DrainNext /\ UNCHANGED <<sqvars, supvars>>)
    \/ (WorkerNext /\ UNCHANGED <<sqvars, supvars>>)
    \/ (ErrConsume /\ UNCHANGED <<sqvars, supvars>>)
    \/ (\E d \in DatasetIds : TmCooldownExpired(d) /\ UNCHANGED <<sqvars, supvars>>)

(***************************************************************************)
(* Supervisor                                                              *)
(***************************************************************************)
Idle(wa) == { w \in DOMAIN wa : wa[w] = None }

\* Supervisor::new(n_workers, ..): a pool of n idle workers.
SupInit ==
    /\ s_state = "Running"
    /\ plans_to_sync = {}
    /\ \E n \in 0..MaxPool :
          /\ worker_assignment = [w \in 1..n |-> None]
          /\ worker_cmd_tx = 1..n
          /\ w_alive = 1..n
    /\ w_inbox = [w \in WorkerIds |-> <<>>]
    /\ worker_resp = <<>>
    /\ resp_out = <<>>
    /\ s_cmds = 0
    /\ s_log = <<>>

\* mpsc send to a worker: delivered unless the worker's receiver is gone.
send_to_worker(inbox, w, cmd) ==
    IF w \in w_alive THEN [inbox EXCEPT ![w] = Append(inbox[w], cmd)] ELSE inbox

\* A SupervisorCommand as received on cmd_rx, and a SupervisorResponse.
SupCmd(kind, p) == [cmd |-> kind, plan_id |-> p]
SupResp(kind, p) == [resp |-> kind, plan_id |-> p]

CmdAssignPlan(p) == [cmd |-> "AssignPlan", plan_id |-> p]
CmdStartSync == [cmd |-> "StartSync", plan_id |-> "-"]
CmdCancelPlan(p) == [cmd |-> "CancelPlan", plan_id |-> p]
CmdShutdown == [cmd |-> "Shutdown", plan_id |-> "-"]

\* The idle scan of AssignPlan and StartAll: the first worker, in the map's
\* iteration order, whose slot is None is marked with the plan. The possible
\* results: (chosen worker as an option, worker_assignment afterwards).
find_idle_and_mark(wa, p) ==
    IF Idle(wa) = {}
    THEN { [worker |-> None, wa |-> wa] }
    ELSE { [worker |-> Some(w), wa |-> [wa EXCEPT ![w] = Some(p)]] : w \in Idle(wa) }

\* SupervisorCommand::AssignPlan { plan_id, .. }; tm is what the task manager
\* answers to RequestTaskReceiver: the matching TaskChannel, another response, or
\* a receive error.
SupAssignPlan(p, tm) ==
    /\ s_state = "Running"
    /\ s_cmds < MaxCmds
    /\ s_cmds' = s_cmds + 1
    /\ s_log' = Append(s_log, SupCmd("AssignPlan", p))
    /\ plans_to_sync' = plans_to_sync \cup {p}
    /\ \E f \in find_idle_and_mark(worker_assignment, p) :
          IF IsSome(f.worker)
          THEN /\ worker_assignment' = f.wa
               /\ w_inbox' = IF tm = "match"
                             THEN send_to_worker(w_inbox, Unwrap(f.worker), CmdAssignPlan(p))
                             ELSE w_inbox
               /\ UNCHANGED <<worker_cmd_tx, w_alive>>
          ELSE \E nw \in WorkerIds \ (DOMAIN worker_assignment \cup worker_cmd_tx \cup w_alive) :
               \* spawn_worker: registered with an empty slot
               /\ worker_assignment' = (nw :> None) @@ worker_assignment
               /\ worker_cmd_tx' = worker_cmd_tx \cup {nw}
               /\ w_alive' = w_alive \cup {nw}
               /\ w_inbox' = IF tm = "match"
                             THEN [w_inbox EXCEPT ![nw] = Append(w_inbox[nw], CmdAssignPlan(p))]
                             ELSE w_inbox
    /\ resp_out' = Append(resp_out, [resp |-> "PlanAssigned", plan_id |-> p])
    /\ UNCHANGED <<s_state, worker_resp>>

\* SupervisorCommand::CancelPlan(plan_id)
SupCancelPlan(p) ==
    /\ s_state = "Running"
    /\ s_cmds < MaxCmds
    /\ s_cmds' = s_cmds + 1
    /\ s_log' = Append(s_log, SupCmd("CancelPlan", p))
    /\ plans_to_sync' = plans_to_sync \ {p}
    /\ resp_out' = Append(resp_out, [resp |-> "PlanCancelled", plan_id |-> p])
    /\ UNCHANGED <<s_state, worker_assignment, worker_cmd_tx, w_inbox, w_alive, worker_resp>>

\* The loop of StartAll over plans_to_sync (in the set's iteration order): each
\* plan takes an idle worker, if one is left, and that worker is sent StartSync.
\* The possible results: (worker_assignment afterwards, workers sent StartSync).
RECURSIVE start_all_loop(_, _)
start_all_loop(wa, plans) ==
    IF plans = {}
    THEN { [wa |-> wa, sent |-> {}] }
    ELSE UNION { UNION { { [wa |-> r.wa, sent |-> r.sent \cup Range(f.worker)] :
                             r \in start_all_loop(f.wa, plans \ {p}) } :
                         f \in find_idle_and_mark(wa, p) } :
                 p \in plans }

\* SupervisorCommand::StartAll
SupStartAll ==
    /\ s_state = "Running"
    /\ s_cmds < MaxCmds
    /\ s_cmds' = s_cmds + 1
    /\ s_log' = Append(s_log, SupCmd("StartAll", "-"))
    /\ \E r \in start_all_loop(worker_assignment, plans_to_sync) :
          /\ worker_assignment' = r.wa
          /\ w_inbox' = [w \in WorkerIds |->
                            IF w \in r.sent /\ w \in worker_cmd_tx /\ w \in w_alive
                            THEN Append(w_inbox[w], CmdStartSync) ELSE w_inbox[w]]
    /\ resp_out' = Append(resp_out, [resp |-> "AllStarted", plan_id |-> "-"])
    /\ UNCHANGED <<s_state, plans_to_sync, worker_cmd_tx, w_alive, worker_resp>>

\* A CancelAll handler that answers nothing.
SupCancelAllSilent ==
    /\ s_state = "Running"
    /\ s_cmds < MaxCmds
    /\ s_cmds' = s_cmds + 1
    /\ s_log' = Append(s_log, SupCmd("CancelAll", "-"))
    /\ UNCHANGED <<s_state, plans_to_sync, worker_assignment, worker_cmd_tx, w_inbox, w_alive,
                   worker_resp, resp_out>>

\* SupervisorCommand::CancelAll
SupCancelAll ==
    /\ s_state = "Running"
    /\ s_cmds < MaxCmds
    /\ s_cmds' = s_cmds + 1
    /\ s_log' = Append(s_log, SupCmd("CancelAll", "-"))
    /\ resp_out' = Append(resp_out, [resp |-> "AllCancelled", plan_id |-> "-"])
    /\ UNCHANGED <<s_state, plans_to_sync, worker_assignment, worker_cmd_tx, w_inbox, w_alive,
                   worker_resp>>

\* SupervisorCommand::Shutdown: Shutdown is sent to every worker (the senders map
\* is consumed), then the handler waits, without returning to the select, until
\* worker_assignment is empty.
SupShutdown ==
    /\ s_state = "Running"
    /\ s_cmds < MaxCmds
    /\ s_cmds' = s_cmds + 1
    /\ s_log' = Append(s_log, SupCmd("Shutdown", "-"))
    /\ w_inbox' = [w \in WorkerIds |->
                      IF w \in worker_cmd_tx /\ w \in w_alive
                      THEN Append(w_inbox[w], CmdShutdown) ELSE w_inbox[w]]
    /\ worker_cmd_tx' = {}
    /\ IF DOMAIN worker_assignment = {}
       THEN /\ s_state' = "Stopped"
            /\ resp_out' = Append(resp_out, [resp |-> "ShutdownComplete", plan_id |-> "-"])
       ELSE /\ s_state' = "WaitingWorkers"
            /\ UNCHANGED resp_out
    /\ UNCHANGED <<plans_to_sync, worker_assignment, w_alive, worker_resp>>

\* The second branch of the select: one worker response is received and handled.
SupOnWorkerResponse ==
    /\ s_state = "Running"
    /\ worker_resp # <<>>
    /\ worker_resp' = Tail(worker_resp)
    /\ LET m == Head(worker_resp) IN
       CASE m.resp = "ShutdownComplete" ->
                /\ worker_assignment' = [w \in DOMAIN worker_assignment \ {m.worker_id} |->
                                            worker_assignment[w]]
                /\ UNCHANGED s_state
         [] m.resp = "PlanAssignmentConfirmed" ->
                /\ worker_assignment' = (m.worker_id :> Some(m.plan_id)) @@ worker_assignment
                /\ UNCHANGED s_state
         [] m.resp = "StartOk" ->
                \* todo!()
                /\ s_state' = "Panicked"
                /\ UNCHANGED worker_assignment
         [] OTHER ->
                \* StartFailed(reason): logged
                UNCHANGED <<s_state, worker_assignment>>
    /\ UNCHANGED <<plans_to_sync, worker_cmd_tx, w_inbox, w_alive, resp_out, s_cmds, s_log>>

(***************************************************************************)
(* Workers (worker.rs is not among the sources; behaviour from the         *)
(* specification, section 4.4).                                            *)
(***************************************************************************)
WResp(kind, w, p) == [resp |-> kind, worker_id |-> w, plan_id |-> p]

\* A worker takes the next command from its mailbox and answers it.
WorkerHandle(w) ==
    /\ w \in w_alive
    /\ w_inbox[w] # <<>>
    /\ w_inbox' = [w_inbox EXCEPT ![w] = Tail(w_inbox[w])]
    /\ LET c == Head(w_inbox[w]) IN
       CASE c.cmd = "AssignPlan" ->
                /\ worker_resp' = Append(worker_resp, WResp("PlanAssignmentConfirmed", w, c.plan_id))
                /\ UNCHANGED w_alive
         [] c.cmd = "StartSync" ->
                /\ \E k \in {"StartOk", "StartFailed"} :
                      worker_resp' = Append(worker_resp, WResp(k, w, "-"))
                /\ UNCHANGED w_alive
         [] c.cmd = "Shutdown" ->
                /\ worker_resp' = Append(worker_resp, WResp("ShutdownComplete", w, "-"))
                /\ w_alive' = w_alive \ {w}
         [] OTHER ->
                /\ worker_resp' = Append(worker_resp, WResp("PlanCancelled", w, c.plan_id))
                /\ UNCHANGED w_alive
    /\ UNCHANGED <<s_state, plans_to_sync, worker_assignment, worker_cmd_tx, resp_out, s_cmds,
                   s_log>>

SupNext ==
    \/ (\E p \in PlanIds, tm \in {"match", "mismatch", "error"} : SupAssignPlan(p, tm))
          /\ UNCHANGED <<sqvars, tmvars>>
    \/ (\E p \in PlanIds : SupCancelPlan(p)) /\ UNCHANGED <<sqvars, tmvars>>
    \/ SupStartAll /\ UNCHANGED <<sqvars, tmvars>>
    \/ SupCancelAll /\ UNCHANGED <<sqvars, tmvars>>
    \/ SupShutdown /\ UNCHANGED <<sqvars, tmvars>>
    \/ SupOnWorkerResponse /\ UNCHANGED <<sqvars, tmvars>>
    \/ (\E w \in WorkerIds : WorkerHandle(w)) /\ UNCHANGED <<sqvars, tmvars>>

(***************************************************************************)
(* Properties.                                                             *)
(***************************************************************************)
\* The step of start() that calls pop_front on the queue of dataset d.
PollStep(d) ==
    /\ m_pc = "poll"
    /\ order[m_idx] = d
    /\ (m_pc' # "poll" \/ m_idx' # m_idx)

\* The step of start() that sends a task of dataset d on the task channel.
EmitStep(d) ==
    /\ m_pc = "send_task"
    /\ order[m_idx] = d
    /\ m_pc' # "send_task"

\* The step of handle_failures that handles a failed task of dataset d.
RetryStep(d) ==
    /\ d_pc = "proc"
    /\ Unwrap(d_msg)[1] = d
    /\ d_pc' # "proc"

\* What the limiter of queue q answers to the next can_proceed.
LimiterAnswer(q) == can_proceed(Unwrap(q.rate_limiter)).status

Permits(q) == ~IsSome(q.rate_limiter) \/ LimiterAnswer(q).kind = "Ok"

\* C1: with only push_back, pop_front and front in use, the tasks returned as
\* Task(Some(t)) followed by the tasks still queued are the pushed tasks in push
\* order (so pops deliver in FIFO order), and front() is the oldest task not yet
\* popped.
C1_Fifo ==
    sq_plain =>
        /\ sq_popped \o sq.tasks = sq_pushed
        /\ front(sq) = IF Len(sq_popped) < Len(sq_pushed)
                       THEN Some(sq_pushed[Len(sq_popped) + 1]) ELSE None

C1_Witness ==
    /\ sq_plain
    /\ Len(sq_popped) = 2
    /\ sq_popped[1] # sq_popped[2]
    /\ sq.tasks # <<>>
    /\ sq_ret.kind = "Task"

\* C2 (as stated): when the limiter answers RequestPerMinuteExceeded /
\* RequestPerDayExceeded, the pop in start() yields RateLimited /
\* DailyLimitExceeded respectively, the task sequence is unchanged and the queue
\* stays in the map.
C2_DeniedPopAsStated ==
    [][\A d \in DatasetIds :
        (/\ PollStep(d)
         /\ IsSome(queues[d].queue.rate_limiter)
         /\ LimiterAnswer(queues[d].queue).kind # "Ok")
        => /\ m_val'.kind = IF LimiterAnswer(queues[d].queue).kind = "RequestPerDayExceeded"
                            THEN "DailyLimitExceeded" ELSE "RateLimited"
           /\ d \in DOMAIN queues'
           /\ queues'[d].queue.tasks = queues[d].queue.tasks]_vars

\* C2 (amended): as above, except that the pop whose answer asks to start the
\* cooldown may instead fail with the TimerError of start_countdown; in no case is
\* a task returned or removed.
C2_DeniedPop ==
    [][\A d \in DatasetIds :
        (/\ PollStep(d)
         /\ IsSome(queues[d].queue.rate_limiter)
         /\ LimiterAnswer(queues[d].queue).kind # "Ok")
        => /\ m_val'.kind \in
                 IF LimiterAnswer(queues[d].queue).kind = "RequestPerDayExceeded"
                 THEN {"DailyLimitExceeded"}
                 ELSE IF LimiterAnswer(queues[d].queue).should_start_cooldown
                 THEN {"RateLimited", "TimerError"}
                 ELSE {"RateLimited"}
           /\ ~IsSome(m_val'.task)
           /\ d \in DOMAIN queues'
           /\ queues'[d].queue.tasks = queues[d].queue.tasks]_vars

C2_Witness ==
    /\ m_pc = "send_err"
    /\ m_val.kind = "RateLimited"
    /\ queues[order[m_idx]].queue.tasks # <<>>

\* C3: pop_front on an empty queue returns Task(None) and leaves the limiter as
\* it was.
C3_EmptyPopLeavesLimiter ==
    [][(sq.tasks = <<>> /\ sq_ret' # NoValue)
        => (sq_ret' = ValTask(None) /\ sq'.rate_limiter = sq.rate_limiter)]_vars

\* C4: a failed task received while retries_left > 0 is put at the front of its
\* queue and retries_left goes down by one.
C4_RetryToFront ==
    [][\A d \in DatasetIds :
        (RetryStep(d) /\ d \in DOMAIN queues /\ queues[d].retries_left > 0)
        => /\ front(queues'[d].queue) = Some(Unwrap(d_msg)[2])
           /\ queues'[d].retries_left = queues[d].retries_left - 1]_vars

\* C5: while start() runs, retries_left stays >= 0 and never increases, the
\* number of re-enqueued failed tasks stays within the max_retry given to
\* add_queue, and a failed task received at retries_left = 0 leaves the queue
\* unchanged.
C5_RetryBudget ==
    [][m_pc # "init" =>
        \A d \in DOMAIN queues :
            /\ queues'[d].retries_left >= 0
            /\ queues'[d].retries_left <= queues[d].retries_left
            /\ requeued'[d] <= max_retry[d]
            /\ requeued'[d] + queues'[d].retries_left = max_retry[d]
            /\ (RetryStep(d) /\ queues[d].retries_left = 0) => queues'[d] = queues[d]]_vars

C5_Witness ==
    \E d \in DOMAIN queues :
        /\ max_retry[d] > 0
        /\ requeued[d] = max_retry[d]
        /\ queues[d].retries_left = 0
        /\ d_pc = "proc"
        /\ Unwrap(d_msg)[1] = d

\* C6: once a queue has answered DailyLimitExceeded it is not polled again (that
\* day).
C6_DormantAfterDailyLimit ==
    [][\A d \in DatasetIds : d \in dormant => ~PollStep(d)]_vars

\* C7: with every queue empty, no cooldown outstanding, nothing in flight and no
\* failed task pending, start() has returned with the channels closed or the
\* TaskManager (main loop or failure-drain task) can take a step towards that.
Quiescent ==
    /\ m_pc \notin {"init", "failed"}
    /\ all_queues_are_empty
    /\ \A d \in DOMAIN queues :
          IsSome(queues[d].queue.rate_limiter) =>
              Unwrap(queues[d].queue.rate_limiter).cooldown = "off"
    /\ task_ch = <<>>
    /\ fail_ch = <<>>
    /\ w_task = None
    /\ d_msg = None

C7_StartReturns ==
    Quiescent => ((m_pc = "returned" /\ closed) \/ ENABLED (MainNext \/ DrainNext))

\* C8: when a queue emits twice in a row, every
\* other limiter-free queue was polled in between and found empty: the passes
\* visit the queues in one stable order and take at most one task from each.
C8_FairPolling ==
    [][\A d \in DatasetIds :
        (EmitStep(d) /\ last_emit = Some(d))
        => \A e \in DOMAIN queues \ {d} :
              ~IsSome(queues[e].queue.rate_limiter) => e \in seen_empty]_vars

C8_Witness ==
    /\ DOMAIN queues = DatasetIds
    /\ \A d \in DatasetIds : ~IsSome(queues[d].queue.rate_limiter) /\ queues[d].queue.tasks # <<>>
    /\ m_pc = "send_task"
    /\ last_emit # None
    /\ last_emit # Some(order[m_idx])

\* C9: while one queue is rate limited and another holds a task its limiter
\* permits, the main loop can go on whatever the error consumer does.
C9_CooldownDoesNotStall ==
    (/\ m_pc = "send_err"
     /\ m_val.kind = "RateLimited"
     /\ \E e \in DOMAIN queues \ {order[m_idx]} :
           queues[e].queue.tasks # <<>> /\ Permits(queues[e].queue))
    => ENABLED MainNext

\* The tasks of dataset d sent on the task channel so far, in order.
EmittedOf(d) == emitted[d]

IsPrefix(a, b) == Len(a) <= Len(b) /\ a = SubSeq(b, 1, Len(a))

\* No task of any queue has been reported failed.
NoFailedTask ==
    /\ fail_ch = <<>>
    /\ d_msg = None
    /\ \A d \in DOMAIN queues : requeued[d] = 0

\* C19: with a single limiter-free queue and no failed task, the tasks sent on
\* the task channel are the queue's tasks in push order, each once, and once
\* the last has been sent and taken the task channel is closed (start() has
\* closed it, or the TaskManager can take a step towards closing it).
C19_AllTasksThenClose ==
    (/\ m_pc \notin {"init", "failed"}
     /\ Cardinality(DOMAIN queues) = 1
     /\ \A d \in DOMAIN queues :
           ~IsSome(queues[d].queue.rate_limiter) /\ pushed[d] # <<>>
     /\ NoFailedTask)
    => \A d \in DOMAIN queues :
          /\ IsPrefix(EmittedOf(d), pushed[d])
          /\ (EmittedOf(d) = pushed[d] /\ task_ch = <<>> /\ w_task = None)
                => (closed \/ ENABLED (MainNext \/ DrainNext))

\* Queue d has a limiter whose day budget is smaller than its number of tasks.
OverBudget(d) ==
    /\ d \in DOMAIN queues
    /\ IsSome(queues[d].queue.rate_limiter)
    /\ Unwrap(queues[d].queue.rate_limiter).daily_limit < Len(pushed[d])

DayBudget(d) == Unwrap(queues[d].queue.rate_limiter).daily_limit

DayExhausted(d) == Unwrap(queues[d].queue.rate_limiter).day = 0

\* The tasks of d popped by start() so far: those sent and the one about to be.
TakenOf(d) ==
    EmittedOf(d) \o (IF m_pc = "send_task" /\ order[m_idx] = d
                     THEN <<Unwrap(m_val.task)>> ELSE <<>>)

\* C20: for a queue holding more tasks than its day budget, the tasks emitted
\* are the first tasks of the queue, no more than the budget and exactly that
\* many once the budget is used up; from then on a poll of the queue yields
\* DailyLimitExceeded, which is sent on the error channel, and no task; and the
\* tasks beyond the budget stay queued in their original order.
C20_DailyBudgetCutsOff ==
    [][\A d \in DatasetIds :
        (m_pc # "init" /\ OverBudget(d))
        => /\ IsPrefix(TakenOf(d), SubSeq(pushed[d], 1, DayBudget(d)))
           /\ LET rest == SubSeq(pushed[d], DayBudget(d) + 1, Len(pushed[d]))
                  InRest(t) == \E i \in 1..Len(rest) : rest[i] = t
              IN  SelectSeq(queues[d].queue.tasks, InRest) = rest
           /\ DayExhausted(d)
                => /\ Len(TakenOf(d)) = DayBudget(d)
                   /\ PollStep(d) => (m_val' = ValDailyLimitExceeded /\ m_pc' = "send_err")
                   /\ ~EmitStep(d) \/ Len(EmittedOf(d)) < DayBudget(d)]_vars

C20_Witness ==
    \E d \in DatasetIds :
        /\ OverBudget(d)
        /\ DayExhausted(d)
        /\ Len(EmittedOf(d)) = DayBudget(d)
        /\ \E i \in 1..Len(err_ch) : err_ch[i].kind = "DailyLimitExceeded"
        /\ Len(queues[d].queue.tasks) >= Len(pushed[d]) - DayBudget(d)

\* Task t of dataset d is with the worker side: sent and not yet reported back.
InFlight(t) ==
    \/ \E i \in 1..Len(task_ch) : task_ch[i] = t
    \/ w_task = Some(t)
    \/ \E i \in 1..Len(fail_ch) : fail_ch[i][2] = t
    \/ (d_msg # None /\ Unwrap(d_msg)[2] = t)

\* C21: the TaskManager does not close its channels while a task of a dataset
\* that still has retries left is in flight or waits in its queue to be emitted
\* again.
C21_NoExitWhileRetryOwed ==
    closed =>
        \A d \in DOMAIN queues :
            queues[d].retries_left > 0 =>
                /\ queues[d].queue.tasks = <<>>
                /\ \A t \in TaskIds : dataset_id(t) = d => ~InFlight(t)

\* C22: a failed task arriving at retries_left = 0 is dropped and a TaskFailed
\* for it is put on the result channel.
C22_TaskFailedOnExhaustion ==
    [][\A d \in DatasetIds :
        (RetryStep(d) /\ d \in DOMAIN queues /\ queues[d].retries_left = 0)
        => /\ queues'[d] = queues[d]
           /\ TaskFailed(Unwrap(d_msg)[2]) \in result_ch']_vars

\* A cooldown timer started by queue d is running.
CooldownRunning(d) ==
    /\ IsSome(queues[d].queue.rate_limiter)
    /\ Unwrap(queues[d].queue.rate_limiter).cooldown = "running"

\* C24: start() goes to stop() and on (closing the channels, returning) only
\* with every queue empty and no cooldown timer of a queue running.
C24_ExitOnlyWhenIdle ==
    m_pc \in {"stop", "join", "returned"} =>
        /\ \A d \in DOMAIN queues : ~CooldownRunning(d)
        /\ (m_pc = "stop" => all_queues_are_empty)

\* C25: no send on the task channel or the error channel happens while the
\* queues-map lock (and with it the polled queue's lock) is held.
C25_NoSendUnderLock ==
    [][(Len(task_ch') > Len(task_ch) \/ Len(err_ch') > Len(err_ch))
       => map_lock = "free"]_vars

\* Task t was pushed to a queue that has a limiter, and start() is running.
PushedLimited(t) ==
    /\ m_pc # "init"
    /\ dataset_id(t) \in DOMAIN queues
    /\ IsSome(queues[dataset_id(t)].queue.rate_limiter)
    /\ \E i \in 1..Len(pushed[dataset_id(t)]) : pushed[dataset_id(t)][i] = t

\* Task t has been sent on the task channel.
Emitted(t) == \E i \in 1..Len(EmittedOf(dataset_id(t))) : EmittedOf(dataset_id(t))[i] = t

\* The premises of C23 have ended for the queue of t: its day budget is used up,
\* or a cooldown timer could not be started (start() has returned the error).
PremiseOver(t) ==
    \/ m_pc = "failed"
    \/ /\ dataset_id(t) \in DOMAIN queues
       /\ IsSome(queues[dataset_id(t)].queue.rate_limiter)
       /\ DayExhausted(dataset_id(t))

LimiterOf(d) == Unwrap(queues[d].queue.rate_limiter)

\* The step of start() that sends the error held in m_val on the error channel.
ForwardStep == m_pc = "send_err" /\ m_pc' # "send_err"

\* What C26 says of the later pops of a window and of the forwarding: a pop
\* answered RequestPerMinuteExceeded without the flag returns RateLimited with
\* no handle and leaves the limiter alone; a handle is returned only by the pop
\* that turns the cooldown from off to running; and the error of a pop, handle
\* included, is what the next send puts on the error channel, once.
LaterPopsAndForward(d) ==
    /\ (/\ PollStep(d)
        /\ IsSome(queues[d].queue.rate_limiter)
        /\ LimiterAnswer(queues[d].queue).kind = "RequestPerMinuteExceeded"
        /\ ~LimiterAnswer(queues[d].queue).should_start_cooldown)
       => /\ m_val' = ValRateLimited(FALSE)
          /\ queues'[d] = queues[d]
          /\ m_pc' = "send_err"
    /\ (PollStep(d) /\ m_val'.timer)
       => /\ LimiterOf(d).cooldown = "off"
          /\ LimiterOf(d).minute = 0
          /\ Unwrap(queues'[d].queue.rate_limiter).cooldown = "running"
    /\ ForwardStep => err_ch' = Append(err_ch, [kind |-> m_val.kind, timer |-> m_val.timer])
    /\ Len(err_ch') > Len(err_ch) => ForwardStep

FirstPopOfWindow(d) ==
    /\ PollStep(d)
    /\ IsSome(queues[d].queue.rate_limiter)
    /\ LimiterAnswer(queues[d].queue).kind = "RequestPerMinuteExceeded"
    /\ LimiterAnswer(queues[d].queue).should_start_cooldown

\* C26 (as stated): the first pop after the minute tokens reach zero returns
\* RateLimited with a timer handle, later pops of the window return RateLimited
\* without one, and the error with the handle is forwarded once.
C26_OneCountdownAsStated ==
    [][\A d \in DatasetIds :
        /\ FirstPopOfWindow(d) => (m_val' = ValRateLimited(TRUE) /\ m_pc' = "send_err")
        /\ LaterPopsAndForward(d)]_vars

\* C26 (amended): as above, except that the first pop of the window fails with
\* the TimerError when start_countdown fails (start() then returns the error and
\* nothing is forwarded).
C26_OneCountdown ==
    [][\A d \in DatasetIds :
        /\ FirstPopOfWindow(d)
              => \/ m_val' = ValRateLimited(TRUE) /\ m_pc' = "send_err"
                 \/ m_val' = ErrTimer /\ m_pc' = "failed"
        /\ LaterPopsAndForward(d)]_vars

C26_Witness ==
    /\ m_pc = "send_err"
    /\ m_val = ValRateLimited(FALSE)
    /\ err_ch = <<[kind |-> "RateLimited", timer |-> TRUE]>>

\* C29: once start() has called stop(), nothing more is sent on the task
\* channel, whatever handle_failures still re-enqueues.
C29_NoEmitAfterStop ==
    [][(m_pc \in {"stop", "join", "returned"} \/ closed)
        => (Len(task_ch') <= Len(task_ch) /\ emitted' = emitted)]_vars

C29_Witness ==
    /\ closed
    /\ m_pc = "returned"
    /\ \E d \in DOMAIN queues : queues[d].queue.tasks # <<>>

\* C30: a pop that fails with the TimerError of start_countdown makes start()
\* return the error, and leaves the queue registered with its tasks and
\* retries_left as they were.
C30_TimerErrorKeepsQueue ==
    [][\A d \in DatasetIds :
        (PollStep(d) /\ m_val' = ErrTimer)
        => /\ m_pc' = "failed"
           /\ d \in DOMAIN queues'
           /\ queues'[d].queue.tasks = queues[d].queue.tasks
           /\ queues'[d].retries_left = queues[d].retries_left]_vars

C30_Witness ==
    /\ m_pc = "failed"
    /\ m_val = ErrTimer
    /\ \E d \in DOMAIN queues :
          /\ queues[d].queue.tasks # <<>>
          /\ IsSome(queues[d].queue.rate_limiter)
          /\ LimiterOf(d).cooldown = "announced"

\* The step that is a call of drain: the only one that leaves a drain result.
DrainStep == IsSome(sq_drained') /\ sq_ops' = sq_ops + 1

\* C27: drain(range) returns the tasks at the positions of the range, first to
\* last, removes exactly those, keeps every other task at its place relative to
\* the others, and leaves the limiter as it was.
C27_DrainRemovesRange ==
    [][DrainStep =>
        LET r == Unwrap(sq_drained')
            n == r.hi - r.lo + 1
        IN  /\ Len(r.values) = n
            /\ \A k \in 1..n : r.values[k] = sq.tasks[r.lo + k - 1]
            /\ Len(sq'.tasks) = Len(sq.tasks) - n
            /\ \A i \in 1..(r.lo - 1) : sq'.tasks[i] = sq.tasks[i]
            /\ \A i \in (r.hi + 1)..Len(sq.tasks) : sq'.tasks[i - n] = sq.tasks[i]
            /\ sq'.rate_limiter = sq.rate_limiter]_vars

C27_Witness ==
    /\ IsSome(sq_drained)
    /\ Len(Unwrap(sq_drained).values) = 2
    /\ Unwrap(sq_drained).values[1] # Unwrap(sq_drained).values[2]
    /\ Unwrap(sq_drained).lo = 2
    /\ Len(sq.tasks) = 1
    /\ IsSome(sq.rate_limiter)

\* start() has returned: Ok(()) after the loop, or the error of a pop.
StartReturned == m_pc \in {"returned", "failed"}

\* C31: whenever start() has returned, normally or with an error, the task, error
\* and failed-task channels are closed.
C31_ClosedOnReturn == StartReturned => closed

\* The main loop waits in task_channel.send on a full channel, with the guard of
\* the queues map.
MainBlockedSending == m_pc = "send_task" /\ Len(task_ch) >= TaskCap /\ map_lock = "main"

\* handle_failures holds the failed-task channel and waits for the queues map.
DrainBlockedOnMap == d_pc = "proc" /\ fail_lock = "drain" /\ map_lock # "free"

\* The worker has a task to report as failed and the failed-task channel is
\* full: it takes no further task before that send.
WorkerBlockedOnFailed == w_task # None /\ ~closed /\ Len(fail_ch) >= FailCap

\* Every failed task on its way to handle_failures is one the TaskManager sent.
OwnFailuresOnly ==
    /\ \A i \in 1..Len(fail_ch) : fail_ch[i][1] \in DOMAIN queues
    /\ d_msg # None => Unwrap(d_msg)[1] \in DOMAIN queues

\* C32: the main loop, handle_failures and the worker are never all three
\* blocked on one another (with only tasks of the TaskManager's queues about):
\* the main loop sending on the full task channel under the queues-map lock,
\* handle_failures waiting for that lock with the failed-task channel locked,
\* the worker sending on the full failed-task channel.
C32_NoSendLockDeadlock ==
    ~(MainBlockedSending /\ DrainBlockedOnMap /\ WorkerBlockedOnFailed /\ OwnFailuresOnly)

\* The step of handle_failures on a failed task of a dataset without queue.
UnknownDatasetStep ==
    /\ d_pc = "proc"
    /\ d_pc' = "lock"
    /\ Unwrap(d_msg)[1] \notin DOMAIN queues

\* C35: a failed task received for a dataset id that has no queue is discarded:
\* no queue is created, and no queue's contents or retries_left change.
C35_UnknownDatasetDiscarded ==
    [][UnknownDatasetStep => (queues' = queues /\ d_msg' = None)]_vars

C35_Witness ==
    /\ d_pc = "proc"
    /\ map_lock = "free"
    /\ Unwrap(d_msg)[1] \notin DOMAIN queues
    /\ \E d \in DOMAIN queues : queues[d].queue.tasks # <<>> /\ queues[d].retries_left > 0

\* The queue of SpecQueue, left alone by the other specifications.
SqIdle ==
    /\ sq = new(<<>>, None)
    /\ sq_ret = NoValue
    /\ sq_pushed = <<>>
    /\ sq_popped = <<>>
    /\ sq_plain = TRUE
    /\ sq_ops = 0
    /\ sq_drained = None

\* C10: no plan id is held as Some(plan_id) in the worker_assignment slots of two
\* different workers.
C10_OneWorkerPerPlan ==
    \A w1, w2 \in DOMAIN worker_assignment :
        (IsSome(worker_assignment[w1]) /\ worker_assignment[w1] = worker_assignment[w2])
            => w1 = w2

\* The step in which the Supervisor sends WorkerCommand::AssignPlan{p} to worker w.
AssignSent(w, p) ==
    /\ Len(w_inbox'[w]) = Len(w_inbox[w]) + 1
    /\ w_inbox'[w][Len(w_inbox'[w])] = CmdAssignPlan(p)

\* Worker w was given plan q (the command is queued, confirmed or recorded in
\* its slot); the Supervisor never sends WorkerCommand::CancelPlan.
HoldsPlan(w, q) ==
    \/ \E i \in 1..Len(w_inbox[w]) : w_inbox[w][i] = CmdAssignPlan(q)
    \/ \E i \in 1..Len(worker_resp) : worker_resp[i] = WResp("PlanAssignmentConfirmed", w, q)
    \/ w \in DOMAIN worker_assignment /\ worker_assignment[w] = Some(q)

\* C11: the Supervisor never sends AssignPlan for a second plan to a worker that
\* still holds another, uncancelled plan.
C11_OneActivePlan ==
    [][\A w \in WorkerIds, p \in PlanIds :
        AssignSent(w, p) => ~\E q \in PlanIds \ {p} : HoldsPlan(w, q)]_vars

\* Every command sent to a worker has been handled and every worker response
\* has been processed by the Supervisor.
SupQuiet ==
    /\ s_state = "Running"
    /\ worker_resp = <<>>
    /\ \A w \in w_alive : w_inbox[w] = <<>>

PlansHeld == { p \in PlanIds : \E w \in DOMAIN worker_assignment : worker_assignment[w] = Some(p) }

\* C12: when nothing is pending, plans_to_sync has as many plans as there are
\* distinct plan ids in the slots of worker_assignment.
C12_PlansMatchAssignment ==
    SupQuiet => Cardinality(plans_to_sync) = Cardinality(PlansHeld)

\* The latest command about plan p was CancelPlan(p).
Cancelled(p) ==
    \E i \in 1..Len(s_log) :
        /\ s_log[i] = SupCmd("CancelPlan", p)
        /\ \A j \in (i + 1)..Len(s_log) : s_log[j] # SupCmd("AssignPlan", p)

\* C28: once CancelPlan(p) and all that the workers answer to it have been
\* processed, no worker_assignment slot holds p any more (the worker that held
\* p is idle again, for a later AssignPlan to take).
C28_SlotClearedAfterCancel ==
    \A p \in PlanIds : (SupQuiet /\ Cancelled(p)) => p \notin PlansHeld

\* The step in which the handling of a command marks the slot of worker w with
\* plan p.
CommandMarks(w, p) ==
    /\ Len(s_log') = Len(s_log) + 1
    /\ w \in DOMAIN worker_assignment'
    /\ worker_assignment'[w] = Some(p)
    /\ ~(w \in DOMAIN worker_assignment /\ worker_assignment[w] = Some(p))

\* C33: when the handling of a command leaves the slot of a worker marked with
\* a plan it did not hold before, that handling has sent WorkerCommand::
\* AssignPlan for the plan to the worker: no slot is marked with a plan the
\* worker was never told about.
C33_MarkedSlotWasTold ==
    [][\A w \in WorkerIds, p \in PlanIds : CommandMarks(w, p) => AssignSent(w, p)]_vars

\* The step in which the Supervisor, running, takes a worker response.
ResponseStep ==
    /\ s_state = "Running"
    /\ worker_resp # <<>>
    /\ worker_resp' = Tail(worker_resp)

\* C34: the Supervisor is still running after it has processed a worker
\* response, of whatever kind.
C34_ResponsesKeepRunning == [][ResponseStep => s_state' = "Running"]_vars

\* C13: while the Supervisor waits for its workers to shut down and the
\* ShutdownComplete of a worker has arrived, the Supervisor can receive it (and
\* so comes to remove the worker, answer ShutdownComplete and exit).
C13_ShutdownCompletes ==
    (/\ s_state = "WaitingWorkers"
     /\ \E i \in 1..Len(worker_resp) : worker_resp[i].resp = "ShutdownComplete")
    => ENABLED SupOnWorkerResponse

\* The step in which the Supervisor emits the response r on resp_tx.
Emits(r) ==
    /\ Len(resp_out') = Len(resp_out) + 1
    /\ resp_out'[Len(resp_out')] = r

\* C14: PlanAssigned{plan_id} is emitted only when WorkerCommand::AssignPlan
\* {plan_id} has been sent to the chosen worker (which takes the matching
\* TaskChannel answer of the task manager).
C14_PlanAssignedAfterSend ==
    [][\A p \in PlanIds :
        Emits(SupResp("PlanAssigned", p)) => \E w \in WorkerIds : AssignSent(w, p)]_vars

\* C15: CancelPlan(plan_id) removes the plan from plans_to_sync and sends
\* WorkerCommand::CancelPlan(plan_id) to exactly the worker whose slot holds it,
\* no later than PlanCancelled is emitted.
C15_CancelReachesWorker ==
    [][\A p \in PlanIds :
        Emits(SupResp("PlanCancelled", p))
        => /\ p \notin plans_to_sync'
           /\ \A w \in WorkerIds :
                 w_inbox'[w] = IF w \in DOMAIN worker_assignment /\ worker_assignment[w] = Some(p)
                               THEN Append(w_inbox[w], CmdCancelPlan(p))
                               ELSE w_inbox[w]]_vars

\* The workers whose slot holds a plan of plans_to_sync.
AssignedWorkers ==
    { w \in DOMAIN worker_assignment :
        IsSome(worker_assignment[w]) /\ Unwrap(worker_assignment[w]) \in plans_to_sync }

\* C16: StartAll sends StartSync to exactly the workers whose slot already holds
\* a plan of plans_to_sync, leaves worker_assignment unchanged and emits
\* AllStarted with those sends done.
C16_StartAllFrame ==
    [][Emits(SupResp("AllStarted", "-"))
        => /\ worker_assignment' = worker_assignment
           /\ \A w \in WorkerIds :
                 w_inbox'[w] = IF w \in AssignedWorkers
                               THEN Append(w_inbox[w], CmdStartSync)
                               ELSE w_inbox[w]]_vars

\* C17: CancelAll sends CancelPlan to the worker of every plan of plans_to_sync
\* that has one, and emits AllCancelled with those sends done.
C17_CancelAllReachesWorkers ==
    [][Emits(SupResp("AllCancelled", "-"))
        => \A w \in AssignedWorkers :
              w_inbox'[w] = Append(w_inbox[w], CmdCancelPlan(Unwrap(worker_assignment[w])))]_vars

\* The responses designated for a command.
Designated(c) ==
    CASE c.cmd = "AssignPlan" -> { SupResp("PlanAssigned", c.plan_id), SupResp("Error", "-") }
      [] c.cmd = "CancelPlan" -> { SupResp("PlanCancelled", c.plan_id) }
      [] c.cmd = "StartAll" -> { SupResp("AllStarted", "-") }
      [] c.cmd = "CancelAll" -> { SupResp("AllCancelled", "-") }
      [] OTHER -> { SupResp("ShutdownComplete", "-") }

IsNotShutdown(c) == c.cmd # "Shutdown"
IsNotShutdownComplete(r) == r.resp # "ShutdownComplete"

\* C18: the responses emitted are, one for one and in order, responses
\* designated for the AssignPlan, CancelPlan, StartAll and CancelAll commands
\* received.
C18_OneResponsePerCommand ==
    LET cmds == SelectSeq(s_log, IsNotShutdown)
        resps == SelectSeq(resp_out, IsNotShutdownComplete)
    IN  /\ Len(resps) = Len(cmds)
        /\ \A i \in 1..Len(cmds) : resps[i] \in Designated(cmds[i])

C18_Witness ==
    /\ Len(s_log) = MaxCmds
    /\ Len(resp_out) = MaxCmds
    /\ s_log[1].cmd = "AssignPlan"
    /\ s_log[2].cmd = "CancelAll"
    /\ s_log[3].cmd \in {"StartAll", "CancelPlan"}

\* The Supervisor of SpecSup, left alone by the other specifications.
SupIdle ==
    /\ s_state = "Running"
    /\ plans_to_sync = {}
    /\ worker_assignment = <<>>
    /\ worker_cmd_tx = {}
    /\ w_alive = {}
    /\ w_inbox = [w \in WorkerIds |-> <<>>]
    /\ worker_resp = <<>>
    /\ resp_out = <<>>
    /\ s_cmds = 0
    /\ s_log = <<>>

InitQueue == SqInit /\ TmInit /\ SupIdle

InitTM == SqIdle /\ TmInit /\ SupIdle

InitSup == SqIdle /\ TmInit /\ SupInit

\* A SyncTaskQueue driven through its methods.
SpecQueue == InitQueue /\ [][SqNext]_vars

\* TaskManager::start() with its failure-drain task, a worker and the error consumer.
SpecTM == InitTM /\ [][TmNext]_vars

\* The same, with every task of the runtime scheduled again and again: the main
\* loop, handle_failures, the worker, the error consumer and the cooldown timers.
SpecTMFair ==
    /\ SpecTM
    /\ WF_vars(MainNext /\ UNCHANGED <<sqvars, supvars>>)
    /\ WF_vars(DrainNext /\ UNCHANGED <<sqvars, supvars>>)
    /\ WF_vars(WorkerNext /\ UNCHANGED <<sqvars, supvars>>)
    /\ WF_vars(ErrConsume /\ UNCHANGED <<sqvars, supvars>>)
    /\ \A d \in DatasetIds : WF_vars(TmCooldownExpired(d) /\ UNCHANGED <<sqvars, supvars>>)

\* Supervisor::run() with its workers.
SpecSup == InitSup /\ [][SupNext]_vars

\* TaskManager::start() on one queue loaded with more tasks than the channels
\* hold, with a worker that also reports failed tasks of a dataset without queue.
SpecTMLoad == InitTM /\ [][TmLoadNext]_vars

====
